---- MODULE Spec2Model ----
(***************************************************************************)
(* Nexia integration: the entity base hierarchy (entity.py) and the sensor *)
(* platform (sensor.py).  A home is a snapshot of the vendor's devices     *)
(* (thermostats, their zones and their room IQ sensors); setup builds the  *)
(* sensor entities from it; attached entities listen on dispatcher         *)
(* signals and on the coordinator.                                         *)
(***************************************************************************)
EXTENDS Integers, Sequences, FiniteSets, TLC

VARIABLES
    home,                  \* the vendor snapshot held by coordinator.nexia_home
    gen,                   \* which poll's readings the snapshot holds
    online,                \* thermostat index -> thermostat.is_online
    last_update_success,   \* coordinator.last_update_success
    entities,              \* the list handed to async_add_entities
    registry,              \* the latest setup run: its poll and its unique ids
    attached,              \* entities currently added to hass
    dispatcher,            \* connected dispatcher listeners
    coordinator_listeners, \* entities listening to the coordinator
    on_remove,             \* entity -> its registered removal callbacks
    last_removed,          \* the entity removed last, while nothing was added since
    last_op,               \* the last dispatch and the entities it wrote
    last_read              \* the last native_value read

vars == <<home, gen, online, last_update_success, entities, registry,
          attached, dispatcher, coordinator_listeners, on_remove, last_removed,
          last_op,
          last_read>>

----------------------------------------------------------------------------
(* Bounds of the model *)

MaxDevices == 3     \* thermostats + zones + room IQ sensors in a snapshot
MaxId == 2          \* colliding zone and room IQ ids are drawn from 1..MaxId
MaxOptional == 2    \* capability flags switched on in a snapshot
MaxGen == 2         \* distinct polls of readings
MaxAttached == 2    \* entities added to hass at one time

----------------------------------------------------------------------------
(* Python values: None, int, float (fixed point, in hundredths), str *)

None == [t |-> "None", n |-> 0, s |-> ""]
PyInt(i) == [t |-> "int", n |-> i, s |-> ""]
PyFloat(h) == [t |-> "float", n |-> h, s |-> ""]
PyStr(x) == [t |-> "str", n |-> 0, s |-> x]

\* bool(val)
PyBool(val) ==
    CASE val.t = "None" -> FALSE
      [] val.t = "str" -> val.s # ""
      [] OTHER -> val.n # 0

\* {**base, **update}: the update's keys win
DictMerge(base, update) == update @@ base

\* the members of a set of numbers, ascending
SortedSeq(S) ==
    [i \in 1..Cardinality(S) |->
        CHOOSE x \in S : Cardinality({y \in S : y < x}) = i - 1]

Rank(S, x) == Cardinality({y \in S : y <= x})

RECURSIVE Concat(_)
Concat(ss) == IF ss = <<>> THEN <<>> ELSE Head(ss) \o Concat(Tail(ss))

----------------------------------------------------------------------------
(* Constants of the integration *)

DOMAIN_NEXIA == "nexia"
MANUFACTURER == "Trane"
SIGNAL_THERMOSTAT_UPDATE == "NEXIA_SIGNAL_THERMOSTAT_UPDATE"
SIGNAL_ZONE_UPDATE == "NEXIA_SIGNAL_ZONE_UPDATE"
SIGNAL_IQ_UPDATE == "NEXIA_SIGNAL_IQ_UPDATE"
UNIT_CELSIUS == "C"
UNIT_FAHRENHEIT == "F"
PERCENTAGE == "%"
ROOT_URL == "https://www.mynexia.com"

----------------------------------------------------------------------------
(* Snapshots of the vendor's devices *)

FlagNames == {"variable_speed_compressor", "outdoor_temperature",
              "relative_humidity"}
ReadingCalls == {"get_weight", "get_humidity", "get_battery_level"}

\* A shape lists the devices: "T" a thermostat, "Z" / "I" a zone / room IQ
\* sensor of the latest thermostat before it (zones listed before sensors).
Shapes ==
    {s \in UNION {[1..n -> {"T", "Z", "I"}] : n \in 1..MaxDevices} :
        /\ s[1] = "T"
        /\ \A p \in 1..(Len(s) - 1) : ~(s[p] = "I" /\ s[p + 1] = "Z")}

Positions(s, kind) == {p \in DOMAIN s : s[p] = kind}

OwnerPos(s, p) == CHOOSE q \in Positions(s, "T") :
    q <= p /\ \A r \in Positions(s, "T") : r <= p => r <= q

\* the capability flags switched on: <<thermostat position, flag>>
Options(s, budget) ==
    {F \in SUBSET (Positions(s, "T") \X FlagNames) : Cardinality(F) <= budget}

\* Ids.  A thermostat's id is its position in the shape.  With unique ids so
\* is a zone's and a room IQ sensor's; otherwise the zones' ids, and the
\* sensors' ids, are any distinct ids of 1..MaxId, which may then equal the id
\* of a device of another kind.
IdChoices(s, kind, unique) ==
    IF unique THEN {Positions(s, kind)}
    ELSE {S \in SUBSET (1..MaxId) : Cardinality(S) = Cardinality(Positions(s, kind))}

BuildZone(s, p, k, zids) ==
    [zone_id |-> zids[Rank(Positions(s, "Z"), p)],
     thermostat |-> k,
     name |-> "Zone" \o ToString(zids[Rank(Positions(s, "Z"), p)])]

BuildIq(s, p, k, first, iids) ==
    [iq_id |-> iids[Rank(Positions(s, "I"), p)],
     thermostat |-> k,
     type |-> IF first THEN "thermostat" ELSE "930",
     name |-> "Room" \o ToString(iids[Rank(Positions(s, "I"), p)])]

BuildThermostat(s, q, zids, iids, F) ==
    LET k == Rank(Positions(s, "T"), q)
        zs == SortedSeq({p \in Positions(s, "Z") : OwnerPos(s, p) = q})
        is == SortedSeq({p \in Positions(s, "I") : OwnerPos(s, p) = q})
    IN [thermostat_id |-> q,
        name |-> "Thermostat" \o ToString(q),
        model |-> "XL" \o ToString(q),
        firmware |-> "5.9." \o ToString(q),
        unit |-> IF q % 2 = 0 THEN UNIT_CELSIUS ELSE UNIT_FAHRENHEIT,
        flags |-> {f \in FlagNames : <<q, f>> \in F},
        zones |-> [j \in DOMAIN zs |-> BuildZone(s, zs[j], k, zids)],
        iqs |-> [j \in DOMAIN is |-> BuildIq(s, is[j], k, j = 1, iids)]]

BuildHome(s, ZS, IS, F) ==
    LET ts == SortedSeq(Positions(s, "T"))
    IN [root_url |-> ROOT_URL,
        thermostats |-> [k \in DOMAIN ts |->
            BuildThermostat(s, ts[k], SortedSeq(ZS), SortedSeq(IS), F)]]

\* every snapshot with at most `budget` capability flags switched on
HomesWith(budget, unique) ==
    UNION {{BuildHome(s, ZS, IS, F) :
                ZS \in IdChoices(s, "Z", unique),
                IS \in IdChoices(s, "I", unique),
                F \in Options(s, budget)} : s \in Shapes}

----------------------------------------------------------------------------
(* The vendor library's device objects.  A thermostat is referred to by its
   index in the snapshot, a zone or a room IQ sensor by <<thermostat index,
   index in the thermostat>>. *)

ThermostatOf(h, k) == h.thermostats[k]
ZoneOf(h, z) == h.thermostats[z[1]].zones[z[2]]
IqOf(h, i) == h.thermostats[i[1]].iqs[i[2]]

get_thermostat_ids(h) == DOMAIN h.thermostats
get_zone_ids(h, k) == [j \in DOMAIN h.thermostats[k].zones |-> <<k, j>>]
get_room_iq_ids(h, k) == [j \in DOMAIN h.thermostats[k].iqs |-> <<k, j>>]

has_variable_speed_compressor(h, k) ==
    "variable_speed_compressor" \in ThermostatOf(h, k).flags
has_outdoor_temperature(h, k) == "outdoor_temperature" \in ThermostatOf(h, k).flags
has_relative_humidity(h, k) == "relative_humidity" \in ThermostatOf(h, k).flags
get_unit(h, k) == ThermostatOf(h, k).unit

\* getattr(thermostat, call)() with the readings of poll g
ThermostatCall(h, g, k, call) ==
    LET id == ThermostatOf(h, k).thermostat_id
    IN CASE call = "get_system_status" ->
              PyStr(IF g % 2 = 0 THEN "System Idle" ELSE "Cooling")
         [] call = "get_air_cleaner_mode" ->
              PyStr(IF (g + id) % 2 = 0 THEN "auto" ELSE "quick")
         [] call = "get_current_compressor_speed" ->
              PyFloat((37 * g + 11 * id) % 101)
         [] call = "get_requested_compressor_speed" ->
              PyFloat((53 * g + 7 * id + 50) % 101)
         [] call = "get_outdoor_temperature" ->
              IF g % 2 = 0 THEN PyFloat(7234 + 42 * g + 200 * (id - 1))
              ELSE PyInt(70 + g + id)
         [] call = "get_relative_humidity" ->
              PyFloat((45 + 3 * g + id) % 101)
         [] OTHER -> None

\* getattr(zone, call)()
ZoneCall(h, g, z, call) ==
    LET id == ZoneOf(h, z).zone_id
    IN CASE call = "get_temperature" ->
              IF g % 2 = 0 THEN PyInt(68 + g + id)
              ELSE PyFloat(6830 + 42 * g + 100 * id)
         [] call = "get_status" ->
              PyStr(IF (g + id) % 2 = 0 THEN "Idle" ELSE "Damper Open")
         [] call = "get_setpoint_status" ->
              PyStr(IF g % 2 = 0 THEN "Permanent Hold" ELSE "Run Schedule")
         [] OTHER -> None

\* Whether a room IQ sensor's reading is nonzero at poll g: the three readings
\* run through all eight combinations over the sensors and the polls.
ReadingBit(call) ==
    CASE call = "get_weight" -> 1
      [] call = "get_humidity" -> 2
      [] call = "get_battery_level" -> 4

ReadingPresent(id, g, call) == (((5 * g + id) % 8) \div ReadingBit(call)) % 2 = 1

\* a reading that is not nonzero: 0, 0.0 or None
ZeroReading(id, g) ==
    CASE (g + id) % 3 = 0 -> PyInt(0)
      [] (g + id) % 3 = 1 -> PyFloat(0)
      [] OTHER -> None

\* getattr(iq, call)()
IqCall(h, g, i, call) ==
    LET id == IqOf(h, i).iq_id
    IN CASE call = "get_temperature" ->
              IF g % 2 = 0 THEN PyFloat(7134 + 42 * g + 100 * id)
              ELSE PyInt(71 + g + id)
         [] call \in ReadingCalls /\ ~ReadingPresent(id, g, call) -> ZeroReading(id, g)
         [] call = "get_weight" -> PyFloat(50 + g + id)
         [] call = "get_humidity" -> PyInt(40 + g + id)
         [] call = "get_battery_level" -> PyInt(80 + g + id)
         [] OTHER -> None

----------------------------------------------------------------------------
(* entity.py: the entity base hierarchy *)

NexiaEntity(unique_id) == [unique_id |-> unique_id]

NexiaThermostatEntity(h, thermostat, unique_id) ==
    DictMerge(NexiaEntity(unique_id),
        [thermostat |-> thermostat,
         device_info |->
            [configuration_url |-> h.root_url,
             identifiers |-> {<<DOMAIN_NEXIA, ThermostatOf(h, thermostat).thermostat_id>>},
             manufacturer |-> MANUFACTURER,
             model |-> ThermostatOf(h, thermostat).model,
             name |-> ThermostatOf(h, thermostat).name,
             sw_version |-> ThermostatOf(h, thermostat).firmware]])

\* (mutant) the zone's device links to itself, not to its thermostat
NexiaThermostatZoneEntity_ViaSelf(h, zone, unique_id) ==
    LET base == NexiaThermostatEntity(h, ZoneOf(h, zone).thermostat, unique_id)
        zone_name == ZoneOf(h, zone).name
    IN DictMerge(base,
        [zone |-> zone,
         device_info |-> DictMerge(base.device_info,
            [identifiers |-> {<<DOMAIN_NEXIA, ZoneOf(h, zone).zone_id>>},
             name |-> zone_name,
             suggested_area |-> zone_name,
             via_device |-> <<DOMAIN_NEXIA, ZoneOf(h, zone).zone_id>>])])

NexiaThermostatZoneEntity(h, zone, unique_id) ==
    LET base == NexiaThermostatEntity(h, ZoneOf(h, zone).thermostat, unique_id)
        zone_name == ZoneOf(h, zone).name
    IN DictMerge(base,
        [zone |-> zone,
         device_info |-> DictMerge(base.device_info,
            [identifiers |-> {<<DOMAIN_NEXIA, ZoneOf(h, zone).zone_id>>},
             name |-> zone_name,
             suggested_area |-> zone_name,
             via_device |-> <<DOMAIN_NEXIA,
                 ThermostatOf(h, ZoneOf(h, zone).thermostat).thermostat_id>>])])

NexiaThermostatIqEntity(h, iq, unique_id) ==
    LET base == NexiaThermostatEntity(h, IqOf(h, iq).thermostat, unique_id)
        parent == ThermostatOf(h, IqOf(h, iq).thermostat)
        is_builtin == IqOf(h, iq).type = "thermostat"
        name == IF is_builtin THEN "builtin" ELSE IqOf(h, iq).name
        iq_name == parent.name \o " " \o name
        area == IF is_builtin THEN parent.name ELSE IqOf(h, iq).name
    IN DictMerge(base,
        [iq |-> iq,
         device_info |-> DictMerge(base.device_info,
            [identifiers |-> {<<DOMAIN_NEXIA, IqOf(h, iq).iq_id>>},
             name |-> iq_name,
             suggested_area |-> area,
             via_device |-> <<DOMAIN_NEXIA, parent.thermostat_id>>])])

----------------------------------------------------------------------------
(* sensor.py: the sensor entities *)

_get_temperature_unit(h, k) ==
    IF get_unit(h, k) = UNIT_CELSIUS THEN "CELSIUS" ELSE "FAHRENHEIT"

\* the attributes every sensor class sets after its base class is built
SensorAttrs(cls, sensor_call, translation_key, sensor_class, sensor_unit, state_class, modifier) ==
    [cls |-> cls,
     call |-> sensor_call,
     modifier |-> modifier,
     device_class |-> sensor_class,
     native_unit_of_measurement |-> sensor_unit,
     state_class |-> state_class,
     translation_key |-> translation_key]

ThermostatUniqueId(h, thermostat, sensor_call) ==
    ToString(ThermostatOf(h, thermostat).thermostat_id) \o "_" \o sensor_call

\* (mutant) a zone sensor's unique id built on its thermostat's id
ZoneUniqueId_ByThermostat(h, zone, sensor_call) ==
    ToString(ThermostatOf(h, ZoneOf(h, zone).thermostat).thermostat_id)
        \o "_" \o sensor_call

ZoneUniqueId(h, zone, sensor_call) ==
    ToString(ZoneOf(h, zone).zone_id) \o "_" \o sensor_call

\* (mutant) a room IQ sensor's unique id built on its thermostat's id
IqUniqueId_ByThermostat(h, iq, sensor_call) ==
    ToString(ThermostatOf(h, IqOf(h, iq).thermostat).thermostat_id)
        \o "_" \o sensor_call

IqUniqueId(h, iq, sensor_call) ==
    ToString(IqOf(h, iq).iq_id) \o "_" \o sensor_call

NexiaThermostatSensor(h, thermostat, sensor_call, translation_key, sensor_class, sensor_unit, state_class, modifier) ==
    DictMerge(
        NexiaThermostatEntity(h, thermostat,
                              ThermostatUniqueId(h, thermostat, sensor_call)),
        SensorAttrs("NexiaThermostatSensor", sensor_call, translation_key,
                    sensor_class, sensor_unit, state_class, modifier))

NexiaThermostatZoneSensor(h, zone, sensor_call, translation_key, sensor_class, sensor_unit, state_class, modifier) ==
    DictMerge(
        NexiaThermostatZoneEntity(h, zone, ZoneUniqueId(h, zone, sensor_call)),
        SensorAttrs("NexiaThermostatZoneSensor", sensor_call, translation_key,
                    sensor_class, sensor_unit, state_class, modifier))

NexiaThermostatIqSensor(h, iq, sensor_call, translation_key, sensor_class, sensor_unit, state_class, modifier) ==
    DictMerge(
        NexiaThermostatIqEntity(h, iq, IqUniqueId(h, iq, sensor_call)),
        SensorAttrs("NexiaThermostatIqSensor", sensor_call, translation_key,
                    sensor_class, sensor_unit, state_class, modifier))

----------------------------------------------------------------------------
(* sensor.py: async_setup_entry *)

\* (mutant) only the current compressor speed sensor is created
CompressorSensors_CurrentOnly(h, thermostat) ==
    IF has_variable_speed_compressor(h, thermostat)
    THEN << NexiaThermostatSensor(h, thermostat, "get_current_compressor_speed",
                "current_compressor_speed", "None", PERCENTAGE, "MEASUREMENT",
                "percent_conv") >>
    ELSE <<>>

\* the two compressor speed sensors of a thermostat
CompressorSensors(h, thermostat) ==
    IF has_variable_speed_compressor(h, thermostat)
    THEN << NexiaThermostatSensor(h, thermostat, "get_current_compressor_speed",
                "current_compressor_speed", "None", PERCENTAGE, "MEASUREMENT",
                "percent_conv"),
            NexiaThermostatSensor(h, thermostat, "get_requested_compressor_speed",
                "requested_compressor_speed", "None", PERCENTAGE, "MEASUREMENT",
                "percent_conv") >>
    ELSE <<>>

\* the sensors of the thermostat itself
SystemSensors(h, thermostat) ==
    << NexiaThermostatSensor(h, thermostat, "get_system_status", "system_status",
           "None", "None", "None", "None"),
       NexiaThermostatSensor(h, thermostat, "get_air_cleaner_mode",
           "air_cleaner_mode", "None", "None", "None", "None") >>
    \o CompressorSensors(h, thermostat)
    \o (IF has_outdoor_temperature(h, thermostat)
        THEN << NexiaThermostatSensor(h, thermostat, "get_outdoor_temperature",
                    "outdoor_temperature", "TEMPERATURE",
                    _get_temperature_unit(h, thermostat), "MEASUREMENT", "None") >>
        ELSE <<>>)
    \o (IF has_relative_humidity(h, thermostat)
        THEN << NexiaThermostatSensor(h, thermostat, "get_relative_humidity",
                    "None", "HUMIDITY", PERCENTAGE, "MEASUREMENT",
                    "percent_conv") >>
        ELSE <<>>)

\* the three sensors of one zone
ZoneSensors(h, thermostat, zone) ==
    << NexiaThermostatZoneSensor(h, zone, "get_temperature", "None", "TEMPERATURE",
           _get_temperature_unit(h, thermostat), "MEASUREMENT", "None"),
       NexiaThermostatZoneSensor(h, zone, "get_status", "zone_status", "None",
           "None", "None", "None"),
       NexiaThermostatZoneSensor(h, zone, "get_setpoint_status",
           "zone_setpoint_status", "None", "None", "None", "None") >>

\* (mutant) the battery sensor is created whatever the battery level reads
RoomIqSensors_BatteryAlways(h, g, thermostat, iq) ==
    (IF PyBool(IqCall(h, g, iq, "get_weight"))
     THEN << NexiaThermostatIqSensor(h, iq, "get_weight", "room_iq_weight", "None",
                 PERCENTAGE, "MEASUREMENT", "percent_conv") >>
     ELSE <<>>)
    \o << NexiaThermostatIqSensor(h, iq, "get_temperature", "None", "TEMPERATURE",
              _get_temperature_unit(h, thermostat), "MEASUREMENT", "None") >>
    \o (IF PyBool(IqCall(h, g, iq, "get_humidity"))
        THEN << NexiaThermostatIqSensor(h, iq, "get_humidity", "None", "HUMIDITY",
                    PERCENTAGE, "MEASUREMENT", "None") >>
        ELSE <<>>)
    \o << NexiaThermostatIqSensor(h, iq, "get_battery_level", "room_iq_battery",
              "None", PERCENTAGE, "MEASUREMENT", "None") >>

\* the sensors of one room IQ sensor; g is the poll whose readings are held
RoomIqSensors(h, g, thermostat, iq) ==
    (IF PyBool(IqCall(h, g, iq, "get_weight"))
     THEN << NexiaThermostatIqSensor(h, iq, "get_weight", "room_iq_weight", "None",
                 PERCENTAGE, "MEASUREMENT", "percent_conv") >>
     ELSE <<>>)
    \o << NexiaThermostatIqSensor(h, iq, "get_temperature", "None", "TEMPERATURE",
              _get_temperature_unit(h, thermostat), "MEASUREMENT", "None") >>
    \o (IF PyBool(IqCall(h, g, iq, "get_humidity"))
        THEN << NexiaThermostatIqSensor(h, iq, "get_humidity", "None", "HUMIDITY",
                    PERCENTAGE, "MEASUREMENT", "None") >>
        ELSE <<>>)
    \o (IF PyBool(IqCall(h, g, iq, "get_battery_level"))
        THEN << NexiaThermostatIqSensor(h, iq, "get_battery_level",
                    "room_iq_battery", "None", PERCENTAGE, "MEASUREMENT", "None") >>
        ELSE <<>>)

\* one pass of the loop over the thermostats
ThermostatPass(h, g, thermostat) ==
    SystemSensors(h, thermostat)
    \o Concat([j \in DOMAIN get_zone_ids(h, thermostat) |->
                  ZoneSensors(h, thermostat, get_zone_ids(h, thermostat)[j])])
    \o Concat([j \in DOMAIN get_room_iq_ids(h, thermostat) |->
                  RoomIqSensors(h, g, thermostat, get_room_iq_ids(h, thermostat)[j])])

\* the list async_setup_entry hands to async_add_entities
async_setup_entry(h, g) ==
    Concat([k \in get_thermostat_ids(h) |-> ThermostatPass(h, g, k)])

----------------------------------------------------------------------------
(* sensor.py: native_value *)

\* util.percent_conv: a 0.0-1.0 fraction as a percentage, round(val * 100.0, 1)
percent_conv(val) ==
    IF val.t = "None" THEN None
    ELSE IF val.t = "int" THEN PyFloat(val.n * 100 * 100)
    ELSE PyFloat(val.n * 100)

\* round(val, 1) of a float in hundredths: the nearest tenth, a tie to even
Round1(n) ==
    LET lo == (n \div 10) * 10
        r == n - lo
    IN IF r < 5 THEN lo
       ELSE IF r > 5 THEN lo + 10
       ELSE IF (lo \div 10) % 2 = 0 THEN lo ELSE lo + 10

\* the device object native_value calls the accessor on
Getattr(h, g, e) ==
    CASE e.cls = "NexiaThermostatSensor" -> ThermostatCall(h, g, e.thermostat, e.call)
      [] e.cls = "NexiaThermostatZoneSensor" -> ZoneCall(h, g, e.zone, e.call)
      [] e.cls = "NexiaThermostatIqSensor" -> IqCall(h, g, e.iq, e.call)

ApplyModifier(e, val) ==
    IF e.modifier # "None" THEN percent_conv(val) ELSE val

\* (mutant) a float is returned as read, not rounded
RoundIfFloat_NotRounded(val) == val

RoundIfFloat(val) ==
    IF val.t = "float" THEN PyFloat(Round1(val.n)) ELSE val

native_value(h, g, e) == RoundIfFloat(ApplyModifier(e, Getattr(h, g, e)))

----------------------------------------------------------------------------
(* entity.py: availability and the dispatcher signals *)

\* CoordinatorEntity.available
CoordinatorEntity_available == last_update_success

\* (mutant) availability that leaves the coordinator out
available_ThermostatOnly(e) == online[e.thermostat]

\* NexiaThermostatEntity.available
available(e) == CoordinatorEntity_available /\ online[e.thermostat]

\* the signal async_added_to_hass connects to, per class
ThermostatListenSignal(h, e) ==
    SIGNAL_THERMOSTAT_UPDATE \o "-"
        \o ToString(ThermostatOf(h, e.thermostat).thermostat_id)
\* (mutant) the zone listener connected in the thermostat signals' namespace
ZoneListenSignal_WrongNamespace(h, e) ==
    SIGNAL_THERMOSTAT_UPDATE \o "-" \o ToString(ZoneOf(h, e.zone).zone_id)

ZoneListenSignal(h, e) ==
    SIGNAL_ZONE_UPDATE \o "-" \o ToString(ZoneOf(h, e.zone).zone_id)
IqListenSignal(h, e) ==
    SIGNAL_IQ_UPDATE \o "-" \o ToString(IqOf(h, e.iq).iq_id)

\* the signal each _signal_*_update helper sends
ThermostatSendSignal(h, e) ==
    SIGNAL_THERMOSTAT_UPDATE \o "-"
        \o ToString(ThermostatOf(h, e.thermostat).thermostat_id)
ZoneSendSignal(h, e) ==
    SIGNAL_ZONE_UPDATE \o "-" \o ToString(ZoneOf(h, e.zone).zone_id)
IqSendSignal(h, e) ==
    SIGNAL_IQ_UPDATE \o "-" \o ToString(IqOf(h, e.iq).iq_id)

IsZoneEntity(e) == e.cls = "NexiaThermostatZoneSensor"
IsIqEntity(e) == e.cls = "NexiaThermostatIqSensor"

\* A listener is <<signal, entity index, n>>: the n-th connection the entity
\* made.  Each async_added_to_hass yields the listeners it connects and the
\* removal callbacks it hands to async_on_remove.
COORDINATOR == "coordinator"

CoordinatorEntity_added(i) ==
    [connected |-> {<<COORDINATOR, i, 0>>}, removers |-> {<<COORDINATOR, i, 0>>}]

NexiaThermostatEntity_added(h, i, e) ==
    LET super == CoordinatorEntity_added(i)
        l == <<ThermostatListenSignal(h, e), i, 1>>
    IN [connected |-> super.connected \cup {l}, removers |-> super.removers \cup {l}]

\* (mutant) the zone listener is connected but not handed to async_on_remove
NexiaThermostatZoneEntity_added_Leaky(h, i, e) ==
    LET super == NexiaThermostatEntity_added(h, i, e)
        l == <<ZoneListenSignal(h, e), i, 2>>
    IN [connected |-> super.connected \cup {l}, removers |-> super.removers]

\* (mutant) the zone entity skips super().async_added_to_hass for the
\* thermostat signal
NexiaThermostatZoneEntity_added_OwnOnly(h, i, e) ==
    LET super == CoordinatorEntity_added(i)
        l == <<ZoneListenSignal(h, e), i, 2>>
    IN [connected |-> super.connected \cup {l}, removers |-> super.removers \cup {l}]

NexiaThermostatZoneEntity_added(h, i, e) ==
    LET super == NexiaThermostatEntity_added(h, i, e)
        l == <<ZoneListenSignal(h, e), i, 2>>
    IN [connected |-> super.connected \cup {l}, removers |-> super.removers \cup {l}]

NexiaThermostatIqEntity_added(h, i, e) ==
    LET super == NexiaThermostatEntity_added(h, i, e)
        l == <<IqListenSignal(h, e), i, 2>>
    IN [connected |-> super.connected \cup {l}, removers |-> super.removers \cup {l}]

async_added_to_hass(h, i, e) ==
    IF IsZoneEntity(e) THEN NexiaThermostatZoneEntity_added(h, i, e)
    ELSE IF IsIqEntity(e) THEN NexiaThermostatIqEntity_added(h, i, e)
    ELSE NexiaThermostatEntity_added(h, i, e)

\* async_dispatcher_send: how many times each entity's async_write_ha_state runs
Dispatch(listeners, signal) ==
    [i \in DOMAIN entities |->
        Cardinality({l \in listeners : l[1] = signal /\ l[2] = i})]

NoOp == [op |-> "none", signal |-> "", by |-> 0, writes |-> <<>>]
NoRead == [entity |-> 0, value |-> None]
NoRun == [runs |-> 0, gen |-> 0, ids |-> {}]

----------------------------------------------------------------------------
(* Actions *)

Gens == 0..(MaxGen - 1)

InitWith(H) ==
    /\ home \in H
    /\ gen = 0
    /\ online = [k \in DOMAIN home.thermostats |-> TRUE]
    /\ last_update_success = TRUE
    /\ entities = <<>>
    /\ registry = NoRun
    /\ attached = {}
    /\ dispatcher = {}
    /\ coordinator_listeners = {}
    /\ on_remove = <<>>
    /\ last_removed = 0
    /\ last_op = NoOp
    /\ last_read = NoRead

\* the platform is set up: async_setup_entry builds the entities
Setup ==
    /\ entities = <<>>
    /\ entities' = async_setup_entry(home, gen)
    /\ registry' = [runs |-> IF registry.runs = 0 THEN 1 ELSE 2,
                    gen |-> gen,
                    ids |-> {entities'[i].unique_id : i \in DOMAIN entities'}]
    /\ on_remove' = [i \in DOMAIN entities' |-> {}]
    /\ last_removed' = 0
    /\ last_op' = NoOp
    /\ last_read' = NoRead
    /\ UNCHANGED <<home, gen, online, last_update_success, attached, dispatcher,
                   coordinator_listeners>>

\* the entity platform adds entity i to hass
Attach(i) ==
    /\ i \in DOMAIN entities
    /\ i \notin attached
    /\ Cardinality(attached) < MaxAttached
    /\ LET added == async_added_to_hass(home, i, entities[i])
       IN /\ dispatcher' = dispatcher \cup {l \in added.connected : l[1] # COORDINATOR}
          /\ coordinator_listeners' =
                coordinator_listeners \cup {l[2] : l \in {x \in added.connected : x[1] = COORDINATOR}}
          /\ on_remove' = [on_remove EXCEPT ![i] = added.removers]
    /\ attached' = attached \cup {i}
    /\ last_removed' = 0
    /\ last_op' = NoOp
    /\ last_read' = NoRead
    /\ UNCHANGED <<home, gen, online, last_update_success, entities, registry>>

\* entity i is removed from hass: its removal callbacks run
RemoveEffects(is) ==
    LET removers == UNION {on_remove[i] : i \in is}
    IN /\ dispatcher' = dispatcher \ removers
       /\ coordinator_listeners' =
             coordinator_listeners \ {l[2] : l \in {x \in removers : x[1] = COORDINATOR}}
       /\ attached' = attached \ is

Detach(i) ==
    /\ i \in attached
    /\ RemoveEffects({i})
    /\ on_remove' = [on_remove EXCEPT ![i] = {}]
    /\ last_removed' = i
    /\ last_op' = NoOp
    /\ last_read' = NoRead
    /\ UNCHANGED <<home, gen, online, last_update_success, entities, registry>>

\* the config entry is unloaded: every entity is removed and dropped
Unload ==
    /\ entities # <<>>
    /\ RemoveEffects(attached)
    /\ entities' = <<>>
    /\ on_remove' = <<>>
    /\ last_removed' = 0
    /\ last_op' = NoOp
    /\ last_read' = NoRead
    /\ UNCHANGED <<home, gen, online, last_update_success, registry>>

Send(op, i, signal) ==
    /\ last_op' = [op |-> op, signal |-> signal, by |-> i,
                   writes |-> Dispatch(dispatcher, signal)]
    /\ last_read' = NoRead
    /\ UNCHANGED <<home, gen, online, last_update_success, entities, registry,
                   attached, dispatcher, coordinator_listeners, on_remove,
                   last_removed>>

\* entity i calls _signal_thermostat_update
SignalThermostatUpdate(i) ==
    /\ i \in attached
    /\ Send("thermostat", i, ThermostatSendSignal(home, entities[i]))

\* zone entity i calls _signal_zone_update
SignalZoneUpdate(i) ==
    /\ i \in attached
    /\ IsZoneEntity(entities[i])
    /\ Send("zone", i, ZoneSendSignal(home, entities[i]))

\* room IQ entity i calls _signal_iq_update
SignalIqUpdate(i) ==
    /\ i \in attached
    /\ IsIqEntity(entities[i])
    /\ Send("iq", i, IqSendSignal(home, entities[i]))

\* the coordinator polls: on success the snapshot holds poll g's readings and
\* the thermostats' online flags `on`; its listeners then write their state
CoordinatorRefresh(success, on, g) ==
    /\ last_update_success' = success
    /\ online' = IF success THEN on ELSE online
    /\ gen' = IF success THEN g ELSE gen
    /\ last_op' = [op |-> "refresh", signal |-> COORDINATOR, by |-> 0,
                   writes |-> [i \in DOMAIN entities |->
                                 IF i \in coordinator_listeners THEN 1 ELSE 0]]
    /\ last_read' = NoRead
    /\ UNCHANGED <<home, entities, registry, attached, dispatcher,
                   coordinator_listeners, on_remove, last_removed>>

\* the state machinery reads entity i's native_value
ReadValue(i) ==
    /\ i \in DOMAIN entities
    /\ last_read' = [entity |-> i, value |-> native_value(home, gen, entities[i])]
    /\ last_op' = NoOp
    /\ UNCHANGED <<home, gen, online, last_update_success, entities, registry,
                   attached, dispatcher, coordinator_listeners, on_remove,
                   last_removed>>

----------------------------------------------------------------------------
(* Specifications *)

\* The notification relay.  Snapshots of every shape, whose zone and room IQ
\* ids may equal ids of devices of other kinds; polls bring nothing new.
Init == InitWith(HomesWith(0, FALSE))

Next ==
    \/ Setup
    \/ \E i \in DOMAIN entities : Attach(i)
    \/ \E i \in DOMAIN entities : Detach(i)
    \/ \E i \in DOMAIN entities : SignalThermostatUpdate(i)
    \/ \E i \in DOMAIN entities : SignalZoneUpdate(i)
    \/ \E i \in DOMAIN entities : SignalIqUpdate(i)
    \/ CoordinatorRefresh(TRUE, online, gen)

Spec == Init /\ [][Next]_vars

\* Polling.  Snapshots of every shape, with unique ids and with ids that
\* collide; polls fail or succeed, thermostats go off line and come back.
InitPoll == InitWith(HomesWith(0, TRUE) \cup HomesWith(0, FALSE))

NextPoll ==
    \/ Setup
    \/ Unload
    \/ \E success \in BOOLEAN, on \in [DOMAIN home.thermostats -> BOOLEAN], g \in Gens :
          CoordinatorRefresh(success, on, g)

SpecPoll == InitPoll /\ [][NextPoll]_vars

\* Setup.  Snapshots with capability flags switched on; the entry is set up,
\* unloaded and set up again while polls go by.
InitSetup == InitWith(HomesWith(MaxOptional, TRUE))

NextSetup ==
    \/ Setup
    \/ Unload
    \/ \E g \in Gens : CoordinatorRefresh(TRUE, online, g)

SpecSetup == InitSetup /\ [][NextSetup]_vars

\* Reads.  The same snapshots; the sensors are read while polls go by.
NextRead ==
    \/ Setup
    \/ \E i \in DOMAIN entities : ReadValue(i)
    \/ \E g \in Gens : CoordinatorRefresh(TRUE, online, g)

SpecRead == InitSetup /\ [][NextRead]_vars

----------------------------------------------------------------------------
(* Properties *)

\* the thermostat an entity's device hangs under in the snapshot
OwnerOf(e) ==
    IF IsZoneEntity(e) THEN e.zone[1] ELSE IF IsIqEntity(e) THEN e.iq[1] ELSE e.thermostat

OwnerId(e) == home.thermostats[OwnerOf(e)].thermostat_id

\* the id of the entity's own device: the thermostat, the zone or the sensor
DeviceId(e) ==
    IF IsZoneEntity(e) THEN home.thermostats[e.zone[1]].zones[e.zone[2]].zone_id
    ELSE IF IsIqEntity(e) THEN home.thermostats[e.iq[1]].iqs[e.iq[2]].iq_id
    ELSE home.thermostats[e.thermostat].thermostat_id

Published == last_op.op \in {"thermostat", "zone", "iq"}

\* entity i listens on the channel the last publish went to
OnPublishedChannel(i) ==
    LET e == entities[i]
        by == entities[last_op.by]
    IN CASE last_op.op = "thermostat" -> OwnerId(e) = OwnerId(by)
         [] last_op.op = "zone" -> IsZoneEntity(e) /\ DeviceId(e) = DeviceId(by)
         [] last_op.op = "iq" -> IsIqEntity(e) /\ DeviceId(e) = DeviceId(by)
         [] OTHER -> FALSE

\* C1: an entity of any nesting level is available only if the coordinator's
\* last update succeeded and its owning thermostat is online; it is
\* unavailable whenever the last refresh failed, online or not.
C1_AvailableOnlyIfBoth ==
    \A i \in DOMAIN entities :
        /\ available(entities[i]) =>
              (last_update_success /\ online[OwnerOf(entities[i])])
        /\ ~last_update_success => ~available(entities[i])

\* C1 witness: the refresh failed while the thermostat of a zone entity, of a
\* room IQ entity and of a thermostat entity reports online
C1_Witness ==
    /\ ~last_update_success
    /\ \E i \in DOMAIN entities : IsZoneEntity(entities[i]) /\ online[OwnerOf(entities[i])]
    /\ \E i \in DOMAIN entities : IsIqEntity(entities[i]) /\ online[OwnerOf(entities[i])]
    /\ \E i \in DOMAIN entities :
          /\ ~IsZoneEntity(entities[i]) /\ ~IsIqEntity(entities[i])
          /\ online[OwnerOf(entities[i])]

\* C2: a publish on a channel (a nesting level and a device id) writes the
\* state only of attached entities that listen on that very channel, and
\* changes nothing else of any entity.
C2_OnlySubscribersRefresh ==
    /\ [](Published =>
            \A i \in DOMAIN entities :
                last_op.writes[i] > 0 => (i \in attached /\ OnPublishedChannel(i)))
    /\ [][(last_op' # last_op /\ last_op'.op \in {"thermostat", "zone", "iq"}) =>
            /\ entities' = entities
            /\ attached' = attached
            /\ dispatcher' = dispatcher
            /\ on_remove' = on_remove]_vars

\* C2 witness: a zone update was published while a thermostat entity whose
\* thermostat has the zone's id was attached, and it was not written
C2_Witness ==
    /\ last_op.op = "zone"
    /\ \E i \in attached : last_op.writes[i] > 0
    /\ \E j \in attached :
          /\ ~IsZoneEntity(entities[j])
          /\ OwnerId(entities[j]) = DeviceId(entities[last_op.by])
          /\ last_op.writes[j] = 0

\* C3: every listener an entity connects on attach is registered for removal:
\* no listener of an entity that is not attached remains, on any channel,
\* and a publish never writes an entity that is not attached.
C3_NoLeakedListeners ==
    /\ \A l \in dispatcher : l[2] \in attached /\ l \in on_remove[l[2]]
    /\ \A i \in coordinator_listeners : i \in attached
    /\ Published => \A i \in DOMAIN entities : last_op.writes[i] > 0 => i \in attached

\* C3 witness: a zone entity was removed and then its thermostat's channel
\* was published on, which wrote another entity
C3_Witness ==
    /\ last_removed # 0
    /\ IsZoneEntity(entities[last_removed])
    /\ last_op.op = "thermostat"
    /\ OwnerId(entities[last_op.by]) = OwnerId(entities[last_removed])
    /\ last_op.writes[last_removed] = 0
    /\ \E i \in attached : last_op.writes[i] > 0

\* the number of sensors setup created for a device and an accessor
SensorCount(cls, ref, call) ==
    Cardinality({i \in DOMAIN entities :
        /\ entities[i].cls = cls
        /\ entities[i].call = call
        /\ (IF cls = "NexiaThermostatSensor" THEN entities[i].thermostat = ref
            ELSE IF cls = "NexiaThermostatZoneSensor" THEN entities[i].zone = ref
            ELSE entities[i].iq = ref)})

UniqueIds == {entities[i].unique_id : i \in DOMAIN entities}

IsNumber(val) == val.t \in {"int", "float"}

\* C5: for every room IQ sensor, setup creates no weight, humidity or battery
\* entity when that reading is zero, exactly one when it is a nonzero number,
\* and exactly one temperature entity whatever the readings are.
C5_RoomIqOptionalSensors ==
    entities # <<>> =>
        \A k \in DOMAIN home.thermostats : \A j \in DOMAIN home.thermostats[k].iqs :
            /\ SensorCount("NexiaThermostatIqSensor", <<k, j>>, "get_temperature") = 1
            /\ \A c \in ReadingCalls :
                  LET val == IqCall(home, registry.gen, <<k, j>>, c)
                  IN /\ (IsNumber(val) /\ val.n = 0) =>
                            SensorCount("NexiaThermostatIqSensor", <<k, j>>, c) = 0
                     /\ (IsNumber(val) /\ val.n # 0) =>
                            SensorCount("NexiaThermostatIqSensor", <<k, j>>, c) = 1

\* C5 witness: setup ran on a room IQ sensor with a nonzero reading and a
\* reading of zero
C5_Witness ==
    /\ entities # <<>>
    /\ \E k \in DOMAIN home.thermostats : \E j \in DOMAIN home.thermostats[k].iqs :
          \E c, d \in ReadingCalls :
              /\ IsNumber(IqCall(home, registry.gen, <<k, j>>, c))
              /\ IqCall(home, registry.gen, <<k, j>>, c).n # 0
              /\ IsNumber(IqCall(home, registry.gen, <<k, j>>, d))
              /\ IqCall(home, registry.gen, <<k, j>>, d).n = 0

CompressorCalls == {"get_current_compressor_speed", "get_requested_compressor_speed"}

\* C6: for every thermostat, setup creates exactly the two compressor speed
\* sensors (current and requested) when the thermostat has a variable speed
\* compressor and none otherwise, whatever its other flags and devices.
C6_CompressorSensors ==
    entities # <<>> =>
        \A k \in DOMAIN home.thermostats :
            /\ \A c \in CompressorCalls :
                  SensorCount("NexiaThermostatSensor", k, c) =
                      IF "variable_speed_compressor" \in home.thermostats[k].flags
                      THEN 1 ELSE 0
            /\ Cardinality({i \in DOMAIN entities :
                    /\ OwnerOf(entities[i]) = k
                    /\ entities[i].call \in CompressorCalls}) =
                  IF "variable_speed_compressor" \in home.thermostats[k].flags
                  THEN 2 ELSE 0

\* C6 witness: setup ran on a thermostat with a variable speed compressor and
\* on one without it that has another capability
C6_Witness ==
    /\ entities # <<>>
    /\ \E k, m \in DOMAIN home.thermostats :
          /\ home.thermostats[k].flags = {"variable_speed_compressor"}
          /\ "variable_speed_compressor" \notin home.thermostats[m].flags
          /\ home.thermostats[m].flags # {}

\* what the accessor named by entity e returns on e's own device
OwnReading(e) ==
    IF IsZoneEntity(e) THEN ZoneCall(home, gen, e.zone, e.call)
    ELSE IF IsIqEntity(e) THEN IqCall(home, gen, e.iq, e.call)
    ELSE ThermostatCall(home, gen, OwnerOf(e), e.call)

IsTenth(n) == n % 10 = 0
Near(n, m) == n - m <= 5 /\ m - n <= 5

\* C7: a sensor's native value is what its accessor returns on its own device,
\* turned into a percentage when a transform is configured and, when that is
\* a float, rounded to one decimal (72.34 gives 72.3); an int or a str that
\* is read with no transform comes out as it is.
C7_NativeValue ==
    last_read.entity # 0 =>
        LET e == entities[last_read.entity]
            raw == OwnReading(e)
            val == last_read.value
        IN /\ (e.modifier = "None" /\ raw.t # "float") => val = raw
           /\ (e.modifier = "None" /\ raw.t = "float") =>
                 val.t = "float" /\ IsTenth(val.n) /\ Near(val.n, raw.n)
           /\ (e.modifier = "None" /\ raw = PyFloat(7234)) => val = PyFloat(7230)
           /\ (e.modifier # "None" /\ raw.t = "float") =>
                 val.t = "float" /\ IsTenth(val.n) /\ Near(val.n, 100 * raw.n)
           /\ (e.modifier # "None" /\ raw.t = "int") =>
                 val.t = "float" /\ IsTenth(val.n) /\ Near(val.n, 10000 * raw.n)

\* C7 witness: a sensor without a transform read 72.34
C7_Witness ==
    /\ last_read.entity # 0
    /\ entities[last_read.entity].modifier = "None"
    /\ OwnReading(entities[last_read.entity]) = PyFloat(7234)
    /\ last_read.value = PyFloat(7230)

\* C8: the device record of a zone or room IQ entity always has the child's
\* own id as its identifier and its parent thermostat's id as its via-device
\* link, with the model, firmware, manufacturer and configuration URL of the
\* parent thermostat.
C8_ChildDeviceInfo ==
    \A i \in DOMAIN entities :
        (IsZoneEntity(entities[i]) \/ IsIqEntity(entities[i])) =>
            LET info == entities[i].device_info
                parent == home.thermostats[OwnerOf(entities[i])]
            IN /\ info.identifiers = {<<DOMAIN_NEXIA, DeviceId(entities[i])>>}
               /\ info.via_device = <<DOMAIN_NEXIA, parent.thermostat_id>>
               /\ info.model = parent.model
               /\ info.sw_version = parent.firmware
               /\ info.manufacturer = MANUFACTURER
               /\ info.configuration_url = home.root_url

\* C8 witness: after a poll, a zone entity and a room IQ entity whose ids
\* differ from their thermostat's
C8_Witness ==
    /\ last_op.op = "refresh"
    /\ \E i \in DOMAIN entities :
          IsZoneEntity(entities[i]) /\ DeviceId(entities[i]) # OwnerId(entities[i])
    /\ \E i \in DOMAIN entities :
          IsIqEntity(entities[i]) /\ DeviceId(entities[i]) # OwnerId(entities[i])

\* C9: a thermostat update published for a thermostat writes every attached
\* entity under that thermostat, its zone and room IQ entities included; a
\* zone or room IQ update writes exactly the attached entities of that zone
\* or sensor, and no thermostat entity.
C9_DependentsRefresh ==
    /\ last_op.op = "thermostat" =>
          \A i \in attached :
              OwnerId(entities[i]) = OwnerId(entities[last_op.by]) =>
                  last_op.writes[i] = 1
    /\ last_op.op \in {"zone", "iq"} =>
          \A i \in DOMAIN entities :
              last_op.writes[i] =
                  IF /\ i \in attached
                     /\ entities[i].cls = entities[last_op.by].cls
                     /\ DeviceId(entities[i]) = DeviceId(entities[last_op.by])
                  THEN 1 ELSE 0

\* C9 witness: a thermostat entity published a thermostat update, which wrote
\* an attached zone or room IQ entity of that thermostat
C9_Witness ==
    /\ last_op.op = "thermostat"
    /\ ~IsZoneEntity(entities[last_op.by]) /\ ~IsIqEntity(entities[last_op.by])
    /\ \E i \in attached :
          /\ IsZoneEntity(entities[i]) \/ IsIqEntity(entities[i])
          /\ last_op.writes[i] = 1

\* the ids of all the devices of the snapshot, kind by kind
DeviceIds ==
    {<<"thermostat", home.thermostats[k].thermostat_id>> : k \in DOMAIN home.thermostats}
    \cup UNION {{<<"zone", home.thermostats[k].zones[j].zone_id>> :
                    j \in DOMAIN home.thermostats[k].zones} : k \in DOMAIN home.thermostats}
    \cup UNION {{<<"iq", home.thermostats[k].iqs[j].iq_id>> :
                    j \in DOMAIN home.thermostats[k].iqs} : k \in DOMAIN home.thermostats}

NoSharedIds == \A a \in DeviceIds, b \in DeviceIds : a[2] = b[2] => a = b

\* C10: when no two devices of the snapshot share an id, the sensors of one
\* setup run have pairwise distinct unique ids; a zone and a room IQ sensor
\* that do share an id have the same unique id for get_temperature.
C10_DistinctUniqueIds ==
    /\ NoSharedIds =>
          \A i \in DOMAIN entities : \A j \in DOMAIN entities :
              i # j => entities[i].unique_id # entities[j].unique_id
    /\ \A i \in DOMAIN entities : \A j \in DOMAIN entities :
          (/\ IsZoneEntity(entities[i]) /\ IsIqEntity(entities[j])
           /\ entities[i].call = "get_temperature"
           /\ entities[j].call = "get_temperature"
           /\ DeviceId(entities[i]) = DeviceId(entities[j]))
              => entities[i].unique_id = entities[j].unique_id

\* C10 witness: setup ran on a snapshot with a zone and a room IQ sensor in
\* which no two devices share an id
C10_Witness ==
    /\ NoSharedIds
    /\ \E i \in DOMAIN entities : IsZoneEntity(entities[i])
    /\ \E i \in DOMAIN entities : IsIqEntity(entities[i])

====
